---- MODULE Spec2Model ----
(***************************************************************************)
(* A model of the request dispatch layer of react-bits-mcp-server: the     *)
(* request handlers registered by setupHandlers (handler.js, kept in       *)
(* src/tools/index.js from line 113 on), the five tool handlers, and the   *)
(* circuit breaker that guards tool calls.                                 *)
(*                                                                         *)
(* Node runs the server on one thread.  An action of this model is one     *)
(* uninterrupted run of JavaScript: from the arrival of a request to the   *)
(* point where its handler awaits file I/O (or to its response, when it    *)
(* never awaits I/O), and from the end of that I/O to the response.        *)
(***************************************************************************)
EXTENDS Integers, Sequences, FiniteSets, TLC

VARIABLES
    breaker,    \* circuitBreakers.external: [status, consecutiveFailures, openedAt]
    now,        \* the clock the breaker reads
    calls,      \* tool calls suspended in their handler, awaiting the file reader
    resp,       \* what the last finished request gave to the transport layer
    streak,     \* history: failed thunks since the last thunk that succeeded
    registry,   \* resources.js: the literal and the template resource handlers
    rres        \* what the last read_resource request did

vars == <<breaker, now, calls, resp, streak, registry, rres>>

-----------------------------------------------------------------------------
(* Bounds of the model.                                                    *)

MaxTime == 4        \* the clock stops here
MaxInFlight == 2    \* tool calls that may be suspended at the same time

-----------------------------------------------------------------------------
(* JavaScript values.                                                      *)

Absent == "<absent>"          \* a property that is not there (undefined)
NoName == "<undefined>"       \* request.params.name missing or not a string

Categories == {"Animations", "Backgrounds", "Components", "TextAnimations"}

\* The own keys of the toolHandlers object literal.
RegisteredTools ==
    {"get_component", "get_component_demo", "list_components",
     "get_component_metadata", "search_components"}

\* Keys every object literal inherits from Object.prototype; the model keeps
\* one that returns when called as a plain function and one that throws.
InheritedKeys == {"constructor", "valueOf"}

\* obj[key] on an object literal: an own property, else an inherited one,
\* else undefined.
PropertyLookup(ownKeys, key) ==
    IF key \in ownKeys THEN [found |-> TRUE, own |-> TRUE, fn |-> key]
    ELSE IF key \in InheritedKeys THEN [found |-> TRUE, own |-> FALSE, fn |-> key]
    ELSE [found |-> FALSE, own |-> FALSE, fn |-> Absent]

\* toolHandlers[name]
ToolLookup(name) == PropertyLookup(RegisteredTools, name)

-----------------------------------------------------------------------------
(* The circuit breaker, utils/circuit-breaker.js.  The file is not among   *)
(* the sources; it is modelled from section 4.1 of the specification.      *)
(* The state is the CircuitBreakerState of section 3 and nothing else, and *)
(* a transition reads the current status, the outcome and the time only.   *)

failureThreshold == 3     \* the specification's scenario registers 3
resetTimeout == 2         \* ticks of the model's clock
NoTime == -1              \* openedAt before the breaker ever opened

BreakerInit ==
    [status |-> "Closed", consecutiveFailures |-> 0, openedAt |-> NoTime]

\* The decision execute() takes before it runs the thunk.  Closed: the call
\* passes.  Open: the call is rejected unless resetTimeout has elapsed, and
\* then the breaker turns HalfOpen and this call is the trial.  HalfOpen:
\* the one trial is already through, the call is rejected.
Admit(b, t) ==
    CASE b.status = "Closed" -> [admit |-> TRUE, breaker |-> b]
      [] b.status = "Open" ->
            IF t - b.openedAt >= resetTimeout
            THEN [admit |-> TRUE, breaker |-> [b EXCEPT !.status = "HalfOpen"]]
            ELSE [admit |-> FALSE, breaker |-> b]
      [] b.status = "HalfOpen" -> [admit |-> FALSE, breaker |-> b]

\* A breaker whose success closes it but keeps the failure count.
OnSuccessKeepsCount(b) ==
    CASE b.status = "Closed" -> b
      [] b.status = "HalfOpen" -> [b EXCEPT !.status = "Closed"]
      [] b.status = "Open" -> b

\* Bookkeeping after the thunk succeeded.  Section 4.1 names no
\* transition for a call that ends while the breaker is Open (a call let
\* through before it opened): the state is left as it is.
OnSuccess(b) ==
    CASE b.status = "Closed" -> [b EXCEPT !.consecutiveFailures = 0]
      [] b.status = "HalfOpen" ->
            [b EXCEPT !.status = "Closed", !.consecutiveFailures = 0]
      [] b.status = "Open" -> b

\* Bookkeeping after the thunk failed, at time t.
OnFailure(b, t) ==
    CASE b.status = "Closed" ->
            IF b.consecutiveFailures + 1 >= failureThreshold
            THEN [status |-> "Open",
                  consecutiveFailures |-> b.consecutiveFailures + 1,
                  openedAt |-> t]
            ELSE [b EXCEPT !.consecutiveFailures = b.consecutiveFailures + 1]
      [] b.status = "HalfOpen" ->
            [b EXCEPT !.status = "Open", !.openedAt = t]
      [] b.status = "Open" -> b

\* A thrown value: the error's class and its message.
Thrown(class, message) == [shape |-> class, kind |-> "thrown", text |-> <<message>>]

CircuitOpenError == Thrown("CircuitOpenError", "Circuit breaker is open")

-----------------------------------------------------------------------------
(* Tool parameters.  A params object is a record of the three properties   *)
(* the tools read; Absent marks one that is not there.                     *)

ComponentNameInputs == {Absent, "AnimatedList"}
CategoryInputs == {Absent, "Components", "Bogus"}
QueryInputs == {Absent, "card"}

ArgInputs ==
    [componentName : ComponentNameInputs, category : CategoryInputs,
     query : QueryInputs]

\* The parameters the specification's operation catalog (section 6) requires.
RequiredParams(tool) ==
    CASE tool \in {"get_component", "get_component_demo", "get_component_metadata"}
            -> {"componentName"}
      [] tool = "search_components" -> {"query"}
      [] OTHER -> {}

\* The tools whose catalog row lists an optional category.
TakesCategory(tool) ==
    tool \in {"get_component", "get_component_demo", "list_components",
              "search_components"}

MissingRequired(tool, p) == {k \in RequiredParams(tool) : p[k] = Absent}

BadCategory(tool, p) ==
    TakesCategory(tool) /\ p.category # Absent /\ p.category \notin Categories

\* validateAndSanitizeParams(tool, params), utils/validation.js.  The file is
\* not among the sources; it is modelled from sections 4.4 and 6 of the
\* specification: a required parameter that is missing, or a category
\* outside the four labels where the tool takes one, is a validation
\* failure that names the offending field; otherwise the params go on.
ValidateAndSanitizeParams(tool, p) ==
    IF MissingRequired(tool, p) # {}
    THEN [ok |-> FALSE, value |-> p,
          message |-> "Validation failed: " \o (CHOOSE k \in MissingRequired(tool, p) : TRUE)
                      \o " is required"]
    ELSE IF BadCategory(tool, p)
    THEN [ok |-> FALSE, value |-> p, message |-> "Validation failed: category is invalid"]
    ELSE [ok |-> TRUE, value |-> p, message |-> ""]

\* One issue of a ZodError as JSON.stringify(issues, null, 2) writes it.
RequiredIssue(key) ==
    "  {\n    \"code\": \"invalid_type\",\n    \"expected\": \"string\",\n"
    \o "    \"received\": \"undefined\",\n    \"path\": [\n      \"" \o key
    \o "\"\n    ],\n    \"message\": \"Required\"\n  }"

EnumIssue(received) ==
    "  {\n    \"received\": \"" \o received
    \o "\",\n    \"code\": \"invalid_enum_value\",\n    \"options\": [\n"
    \o "      \"Animations\",\n      \"Backgrounds\",\n      \"Components\",\n"
    \o "      \"TextAnimations\"\n    ],\n    \"path\": [\n      \"category\"\n    ],\n"
    \o "    \"message\": \"Invalid enum value. Expected 'Animations' | 'Backgrounds' | "
    \o "'Components' | 'TextAnimations', received '" \o received \o "'\"\n  }"

\* ZodError.message: the issues, in the order of the schema's keys.
RECURSIVE JoinIssues(_)
JoinIssues(issues) ==
    IF Len(issues) = 1 THEN issues[1]
    ELSE issues[1] \o ",\n" \o JoinIssues(Tail(issues))

ZodMessage(issues) == "[\n" \o JoinIssues(issues) \o "\n]"

\* The handler's own zod schema, <schema>.parse(validatedParams).  z.string()
\* rejects a missing property, z.enum(...).optional() one outside the enum,
\* and z.object drops the keys the schema does not name.
SchemaParse(tool, p) ==
    LET name == IF p.componentName = Absent THEN <<RequiredIssue("componentName")>> ELSE <<>>
        query == IF p.query = Absent THEN <<RequiredIssue("query")>> ELSE <<>>
        category == IF p.category # Absent /\ p.category \notin Categories
                    THEN <<EnumIssue(p.category)>> ELSE <<>>
        issues == CASE tool \in {"get_component", "get_component_demo",
                                 "get_component_metadata"} -> name
                    [] tool = "list_components" -> category
                    [] tool = "search_components" -> query \o category
        kept == CASE tool \in {"get_component", "get_component_demo",
                               "get_component_metadata"} ->
                        [componentName |-> p.componentName,
                         category |-> Absent, query |-> Absent]
                  [] tool = "list_components" ->
                        [componentName |-> Absent,
                         category |-> p.category, query |-> Absent]
                  [] tool = "search_components" ->
                        [componentName |-> Absent,
                         category |-> p.category, query |-> p.query]
    IN  IF issues # <<>>
        THEN [ok |-> FALSE, value |-> p, message |-> ZodMessage(issues)]
        ELSE [ok |-> TRUE, value |-> kept, message |-> ""]

\* The text each handler's catch block puts before the error's message.
ErrorPrefix(tool) ==
    CASE tool = "get_component" -> "Error retrieving component: "
      [] tool = "get_component_demo" -> "Error retrieving component demo: "
      [] tool = "list_components" -> "Error listing components: "
      [] tool = "get_component_metadata" -> "Error retrieving component metadata: "
      [] tool = "search_components" -> "Error searching components: "

\* { content: [ { type: 'text', text } ] }; kind tells what the text is.
Envelope(kind, lines) == [shape |-> "envelope", kind |-> kind, text |-> lines]

\* A catch block that throws the error on.
ErrorRaised(tool, message) == [shape |-> "Error", kind |-> "thrown", text |-> <<message>>]

\* catch (error) { logError(...); return { content: [ ... `${prefix}${message}` ] } }
ErrorEnvelope(tool, message) == Envelope("error", <<ErrorPrefix(tool) \o message>>)

LogInfo(msg) == [level |-> "info", msg |-> msg, ctx |-> {}]
LogError(msg, err) == [level |-> "error", msg |-> msg \o ": " \o err, ctx |-> {}]

CatchName(tool) ==
    CASE tool = "get_component" -> "Error in handleGetComponent"
      [] tool = "get_component_demo" -> "Error in handleGetComponentDemo"
      [] tool = "list_components" -> "Error in handleListComponents"
      [] tool = "get_component_metadata" -> "Error in handleGetComponentMetadata"
      [] tool = "search_components" -> "Error in handleSearchComponents"

\* The handler's log line before it calls the file reader.
StartLine(tool, q) ==
    CASE tool = "get_component" -> "Getting component source for: " \o q.componentName
      [] tool = "get_component_demo" -> "Getting component demo for: " \o q.componentName
      [] tool = "get_component_metadata" -> "Getting component metadata for: " \o q.componentName
      [] tool = "list_components" ->
            "Listing components" \o
            (IF q.category # Absent THEN " for category: " \o q.category ELSE "")
      [] tool = "search_components" ->
            "Searching components with query: \"" \o q.query \o "\"" \o
            (IF q.category # Absent THEN " in category: " \o q.category ELSE "")

\* A handler that parses with its zod schema only and leaves out the call
\* of validateAndSanitizeParams.
HandlerStartUnvalidated(tool, p) ==
    LET z == SchemaParse(tool, p)
    IN  IF ~z.ok
        THEN [suspends |-> FALSE, parsed |-> p,
              result |-> ErrorEnvelope(tool, z.message),
              log |-> <<LogError(CatchName(tool), z.message)>>]
        ELSE [suspends |-> TRUE, parsed |-> z.value,
              result |-> Envelope("none", <<>>),
              log |-> <<LogInfo(StartLine(tool, z.value))>>]

\* A tool handler from its call to its first await of the file reader:
\* validate, parse, log.  A failure of either check is caught by the
\* handler's own catch block and comes back as an error envelope.
HandlerStart(tool, p) ==
    LET v == ValidateAndSanitizeParams(tool, p)
        z == SchemaParse(tool, v.value)
    IN  IF ~v.ok
        THEN [suspends |-> FALSE, parsed |-> p,
              result |-> ErrorEnvelope(tool, v.message),
              log |-> <<LogError(CatchName(tool), v.message)>>]
        ELSE IF ~z.ok
        THEN [suspends |-> FALSE, parsed |-> p,
              result |-> ErrorEnvelope(tool, z.message),
              log |-> <<LogError(CatchName(tool), z.message)>>]
        ELSE [suspends |-> TRUE, parsed |-> z.value,
              result |-> Envelope("none", <<>>),
              log |-> <<LogInfo(StartLine(tool, z.value))>>]

-----------------------------------------------------------------------------
(* The file reader, utils/file-reader.js: an outside collaborator.  What   *)
(* it gives back is an input of the model.                                 *)

Component(name, category) == [name |-> name, category |-> category]

\* Array.prototype.sort() without a comparator orders strings by UTF-16
\* code units; the rank of the component names the model uses.
NameRank(name) ==
    CASE name = "AnimatedList" -> 1
      [] name = "Aurora" -> 2
      [] name = "CardSwap" -> 3

ComponentLists ==
    { <<>>,
      <<Component("Aurora", "Backgrounds")>>,
      <<Component("CardSwap", "Components"), Component("AnimatedList", "Components")>>,
      <<Component("CardSwap", "Components"), Component("Aurora", "Backgrounds"),
        Component("AnimatedList", "Components")>> }

MetadataRecords ==
    { [name |-> "AnimatedList", category |-> "Components", description |-> Absent,
       dependencies |-> <<>>, props |-> <<>>, examples |-> <<>>],
      [name |-> "AnimatedList", category |-> "Components",
       description |-> "An animated list",
       dependencies |-> <<"framer-motion">>,
       props |-> <<[name |-> "items", info |-> "string[]"]>>,
       examples |-> <<"<AnimatedList />">>] }

\* What the awaited file reader call may do for a tool.  A get_* reader
\* gives a text or a record, or signals that there is none by an empty or
\* absent result, or throws.
FileOutcomes(tool) ==
    CASE tool \in {"get_component", "get_component_demo"} ->
            { [kind |-> "present", items |-> <<"export default function AnimatedList() {}">>],
              [kind |-> "absent", items |-> <<"">>],
              [kind |-> "absent", items |-> <<>>],
              [kind |-> "throws", items |-> <<"EACCES: permission denied">>] }
      [] tool = "get_component_metadata" ->
            { [kind |-> "present", items |-> <<m>>] : m \in MetadataRecords }
            \cup { [kind |-> "absent", items |-> <<>>],
                   [kind |-> "throws", items |-> <<"EACCES: permission denied">>] }
      [] tool \in {"list_components", "search_components"} ->
            { [kind |-> "present", items |-> l] : l \in ComponentLists }
            \cup { [kind |-> "throws", items |-> <<"EACCES: permission denied">>] }

\* No file reader call was made.
NoOutcome == [kind |-> "none", items |-> <<>>]

\* listComponents(categoryFilter?) and searchComponents(query,
\* categoryFilter?) give entries of the category asked for.
Filtered(o, category) ==
    (o.kind = "present" /\ category # Absent) =>
        \A k \in DOMAIN o.items : o.items[k].category = category

\* What the awaited file reader call may do for a tool called with the
\* parsed params q.
ReaderOutcomes(tool, q) ==
    IF tool \in {"list_components", "search_components"}
    THEN {o \in FileOutcomes(tool) : Filtered(o, q.category)}
    ELSE FileOutcomes(tool)

NumStr(n) ==
    CASE n = 0 -> "0" [] n = 1 -> "1" [] n = 2 -> "2" [] n = 3 -> "3" [] OTHER -> "many"

RECURSIVE Insert(_, _)
Insert(name, sorted) ==
    IF sorted = <<>> THEN <<name>>
    ELSE IF NameRank(name) <= NameRank(Head(sorted)) THEN <<name>> \o sorted
    ELSE <<Head(sorted)>> \o Insert(name, Tail(sorted))

\* The names left in the order the reader gave them.
NoSort(names) == names

\* componentNames.sort()
RECURSIVE SortNames(_)
SortNames(names) ==
    IF names = <<>> THEN <<>> ELSE Insert(Head(names), SortNames(Tail(names)))

\* The keys of the object the reduce builds, in insertion order: each
\* category at its first appearance in the results.
RECURSIVE CategoriesInOrder(_, _)
CategoriesInOrder(results, seen) ==
    IF results = <<>> THEN <<>>
    ELSE IF Head(results).category \in seen
    THEN CategoriesInOrder(Tail(results), seen)
    ELSE <<Head(results).category>>
         \o CategoriesInOrder(Tail(results), seen \cup {Head(results).category})

\* acc[category]: the names pushed under one category, in result order.
RECURSIVE NamesIn(_, _)
NamesIn(results, cat) ==
    IF results = <<>> THEN <<>>
    ELSE (IF Head(results).category = cat THEN <<Head(results).name>> ELSE <<>>)
         \o NamesIn(Tail(results), cat)

RECURSIVE BulletLines(_)
BulletLines(names) ==
    IF names = <<>> THEN <<>> ELSE <<"- " \o Head(names)>> \o BulletLines(Tail(names))

\* for (const [cat, componentNames] of Object.entries(...)) { ... }
RECURSIVE GroupLines(_, _)
GroupLines(results, cats) ==
    IF cats = <<>> THEN <<>>
    ELSE <<"## " \o Head(cats)>>
         \o BulletLines(SortNames(NamesIn(results, Head(cats))))
         \o <<"">>
         \o GroupLines(results, Tail(cats))

\* The lines of the text handleListComponents builds for a non-empty list.
ListText(results) ==
    <<"Available React Bits Components:", "">>
    \o GroupLines(results, CategoriesInOrder(results, {}))
    \o <<"", "Total: " \o NumStr(Len(results)) \o " components">>

\* The lines of the text handleSearchComponents builds for a non-empty list.
SearchText(query, results) ==
    <<"Search Results for \"" \o query \o "\":", "">>
    \o GroupLines(results, CategoriesInOrder(results, {}))
    \o <<"", "Found " \o NumStr(Len(results)) \o " matching component"
             \o (IF Len(results) = 1 THEN "" ELSE "s")>>

RECURSIVE PropLines(_)
PropLines(props) ==
    IF props = <<>> THEN <<>>
    ELSE <<"- " \o Head(props).name \o ": " \o Head(props).info>> \o PropLines(Tail(props))

RECURSIVE ExampleLines(_, _)
ExampleLines(examples, i) ==
    IF examples = <<>> THEN <<>>
    ELSE <<NumStr(i) \o ". " \o Head(examples)>> \o ExampleLines(Tail(examples), i + 1)

\* The lines of the text handleGetComponentMetadata builds.
MetadataText(m) ==
    <<"# " \o m.name \o " Component Metadata", "",
      "**Category:** " \o m.category, "">>
    \o (IF m.description # Absent THEN <<"**Description:** " \o m.description, "">> ELSE <<>>)
    \o (IF Len(m.dependencies) > 0
        THEN <<"**Dependencies:**">> \o BulletLines(m.dependencies) \o <<"">> ELSE <<>>)
    \o (IF Len(m.props) > 0 THEN <<"**Props:**">> \o PropLines(m.props) \o <<"">> ELSE <<>>)
    \o (IF Len(m.examples) > 0
        THEN <<"**Examples:**">> \o ExampleLines(m.examples, 1) \o <<"">> ELSE <<>>)

\* The message of the Error a get_* handler throws when the reader gave
\* nothing.
NotFoundMessage(tool, name) ==
    CASE tool = "get_component" -> "Component '" \o name \o "' not found"
      [] tool = "get_component_demo" -> "Demo for component '" \o name \o "' not found"
      [] tool = "get_component_metadata" -> "Metadata for component '" \o name \o "' not found"

\* The handler's log line after the reader gave a value.
SuccessLine(tool, q) ==
    CASE tool = "get_component" ->
            "Successfully retrieved component source for: " \o q.componentName
      [] tool = "get_component_demo" ->
            "Successfully retrieved component demo for: " \o q.componentName
      [] tool = "get_component_metadata" ->
            "Successfully retrieved component metadata for: " \o q.componentName

\* A test that takes only a missing value for nothing: value === undefined.
FalsyUndefinedOnly(o) == o.kind = "absent" /\ o.items = <<>>

\* if (!value): the reader's ways of giving nothing, undefined, null and
\* the empty text, are all falsy; a text with characters and a record are
\* not.
Falsy(o) == o.kind = "absent"

\* A tool handler from the end of its awaited file reader call to its
\* return.  q is the parsed params, o what the reader did.  Every path
\* returns an envelope: the catch block turns a throw into an error text.
HandlerFinish(tool, q, o) ==
    IF o.kind = "throws"
    THEN [result |-> ErrorEnvelope(tool, o.items[1]),
          log |-> <<LogError(CatchName(tool), o.items[1])>>]
    ELSE CASE tool \in {"get_component", "get_component_demo"} ->
                IF Falsy(o)
                THEN [result |-> ErrorEnvelope(tool, NotFoundMessage(tool, q.componentName)),
                      log |-> <<LogError(CatchName(tool),
                                         NotFoundMessage(tool, q.componentName))>>]
                ELSE [result |-> Envelope("data", o.items),
                      log |-> <<LogInfo(SuccessLine(tool, q))>>]
           [] tool = "get_component_metadata" ->
                IF Falsy(o)
                THEN [result |-> ErrorEnvelope(tool, NotFoundMessage(tool, q.componentName)),
                      log |-> <<LogError(CatchName(tool),
                                         NotFoundMessage(tool, q.componentName))>>]
                ELSE [result |-> Envelope("data", MetadataText(o.items[1])),
                      log |-> <<LogInfo(SuccessLine(tool, q))>>]
           [] tool = "list_components" ->
                IF Len(o.items) = 0
                THEN [result |-> Envelope("message",
                          <<IF q.category # Absent
                            THEN "No components found in category '" \o q.category \o "'"
                            ELSE "No components found">>),
                      log |-> <<>>]
                ELSE [result |-> Envelope("data", ListText(o.items)),
                      log |-> <<LogInfo("Successfully listed " \o NumStr(Len(o.items))
                                        \o " components")>>]
           [] tool = "search_components" ->
                IF Len(o.items) = 0
                THEN [result |-> Envelope("message",
                          <<IF q.category # Absent
                            THEN "No components found matching \"" \o q.query
                                 \o "\" in category '" \o q.category \o "'"
                            ELSE "No components found matching \"" \o q.query \o "\"">>),
                      log |-> <<>>]
                ELSE [result |-> Envelope("data", SearchText(q.query, o.items)),
                      log |-> <<LogInfo("Search completed: found " \o NumStr(Len(o.items))
                                        \o " components matching \"" \o q.query \o "\"")>>]

-----------------------------------------------------------------------------
(* The dispatcher: handleRequest and the CallToolRequestSchema handler.    *)

NameInputs == {NoName, "unknown_tool"} \cup RegisteredTools \cup InheritedKeys

NoArgs == [componentName |-> Absent, category |-> Absent, query |-> Absent]

ValidArgs == [componentName |-> "AnimatedList", category |-> "Components", query |-> "card"]

\* logInfo(`Handling ${operation} request`, { params })
EntryLog(operation, params) ==
    [level |-> "info", msg |-> "Handling " \o operation \o " request", ctx |-> {params}]

\* A handleRequest that logs the completion line whatever happened.
ExitLogAlwaysSuccess(operation, thrown, payload) ==
    [level |-> "info", msg |-> operation \o " completed successfully", ctx |-> {}]

\* handleRequest after its handler settled: the completion line and the
\* result, or the error line and the same error thrown again.
ExitLog(operation, thrown, payload) ==
    IF thrown THEN LogError("Error in " \o operation, payload.text[1])
    ELSE LogInfo(operation \o " completed successfully")

\* A handler that calls the tool without asking the breaker.
ProtectNone(b, t) == [admit |-> TRUE, breaker |-> b]

\* circuitBreakers.external.execute(...) as the handler calls it: the
\* breaker decides whether the thunk runs.
Protect(b, t) == Admit(b, t)

\* The breaker's bookkeeping for a thunk that ended, once per thunk: the
\* transition of section 4.1 for the status the breaker has at that moment,
\* the outcome and the time.
Settle(b, ok, t) == IF ok THEN OnSuccess(b) ELSE OnFailure(b, t)

\* A handler that wraps the thunk in execute() twice.
BookTwice(b, ok, t) == Settle(Settle(b, ok, t), ok, t)

\* The handler passes each thunk to execute() once: one bookkeeping per
\* thunk that ended.
Book(b, ok, t) == Settle(b, ok, t)

\* What a function found under an inherited key does when the thunk calls
\* it as handler(params || {}): Object(params) gives an object back,
\* Object.prototype.valueOf without a receiver throws a TypeError.
InheritedCall(key) ==
    CASE key = "constructor" ->
            [ok |-> TRUE, payload |-> [shape |-> "object", kind |-> "raw", text |-> <<>>]]
      [] key = "valueOf" ->
            [ok |-> FALSE,
             payload |-> Thrown("TypeError", "Cannot convert undefined or null to object")]

\* One call_tool request from its arrival to the first point where it
\* waits for file I/O, or to its response when it never waits.
\*   outcome:  "thrown", "returned", or "pending" while the handler waits
\*   thunk:    the thunk given to execute() was invoked
\*   handler:  the function invoked as the tool's handler, Absent if none
\*   ran:      how the thunk ended: "ok", "fail", "pending", or "none"
\*   admitted: the breaker's status when it let the thunk run
DispatchCallTool(name, args, b, t) ==
    LET base == [outcome |-> "thrown", payload |-> Thrown("Error", ""),
                 breaker |-> b, handler |-> Absent, thunk |-> FALSE, ran |-> "none",
                 admitted |-> "", parsed |-> NoArgs, log |-> <<>>,
                 early |-> FALSE, result |-> Envelope("none", <<>>)]
        found == ToolLookup(name)
        gate == Protect(b, t)
    IN  IF name = NoName
        THEN [base EXCEPT !.payload = Thrown("Error", "Tool name is required")]
        ELSE IF ~found.found
        THEN [base EXCEPT !.payload = Thrown("Error", "Tool not found: " \o name)]
        ELSE IF ~gate.admit
        THEN [base EXCEPT !.payload = CircuitOpenError, !.breaker = gate.breaker]
        ELSE IF ~found.own
        THEN LET r == InheritedCall(found.fn)
             IN  IF r.ok
                 THEN [base EXCEPT !.outcome = "pending",
                                   !.payload = Envelope("none", <<>>),
                                   !.breaker = gate.breaker,
                                   !.handler = found.fn, !.thunk = TRUE,
                                   !.ran = "pending",
                                   !.admitted = gate.breaker.status,
                                   !.early = TRUE, !.result = r.payload]
                 ELSE [base EXCEPT !.payload = r.payload,
                                   !.breaker = Book(gate.breaker, FALSE, t),
                                   !.handler = found.fn, !.thunk = TRUE,
                                   !.ran = "fail",
                                   !.admitted = gate.breaker.status]
        ELSE LET h == HandlerStart(found.fn, args)
             IN  IF h.suspends
                 THEN [base EXCEPT !.outcome = "pending",
                                   !.payload = Envelope("none", <<>>),
                                   !.breaker = gate.breaker,
                                   !.handler = found.fn, !.thunk = TRUE,
                                   !.ran = "pending", !.parsed = h.parsed,
                                   !.admitted = gate.breaker.status, !.log = h.log]
                 ELSE [base EXCEPT !.outcome = "pending",
                                   !.payload = Envelope("none", <<>>),
                                   !.breaker = gate.breaker,
                                   !.handler = found.fn, !.thunk = TRUE,
                                   !.ran = "pending", !.parsed = h.parsed,
                                   !.admitted = gate.breaker.status, !.log = h.log,
                                   !.early = TRUE, !.result = h.result]

FreeSlot ==
    [state |-> "free", tool |-> Absent, args |-> NoArgs, params |-> NoArgs,
     admitted |-> "", log |-> <<>>, result |-> Envelope("none", <<>>)]

FreeSlots == {i \in DOMAIN calls : calls[i].state = "free"}

Waiting == {i \in DOMAIN calls : calls[i].state = "waiting"}

\* The calls whose thunk has its value and whose booking is yet to come.
Returned == {i \in DOMAIN calls : calls[i].state = "returned"}

\* resp before any request, and after time passed.
NoResponse ==
    [step |-> "none", op |-> "none", name |-> NoName, args |-> NoArgs,
     outcome |-> "none", payload |-> Envelope("none", <<>>), handler |-> Absent,
     thunk |-> FALSE, ran |-> "none", lookup |-> FALSE, admitted |-> "",
     before |-> BreakerInit, read |-> NoOutcome, log |-> <<>>]

\* The failed thunks in a row, counted up to the threshold.
NextStreak(ran) ==
    CASE ran = "ok" -> 0
      [] ran = "fail" -> IF streak < failureThreshold THEN streak + 1 ELSE streak
      [] OTHER -> streak

\* A tools/call request arrives.
CallTool(name, args) ==
    \E d \in {DispatchCallTool(name, args, breaker, now)} :
        LET entry == <<EntryLog("call_tool", [name |-> name, arguments |-> args])>>
        IN  /\ d.outcome = "pending" => FreeSlots # {}
            /\ breaker' = d.breaker
            /\ streak' = NextStreak(d.ran)
            /\ resp' = [step |-> "arrive", op |-> "call_tool", name |-> name,
                        args |-> args, outcome |-> d.outcome,
                        payload |-> d.payload, handler |-> d.handler,
                        thunk |-> d.thunk, ran |-> d.ran, lookup |-> FALSE,
                        admitted |-> d.admitted, before |-> breaker, read |-> NoOutcome,
                        log |-> IF d.outcome = "pending" THEN entry \o d.log
                                ELSE entry \o d.log
                                     \o <<ExitLog("call_tool", d.outcome = "thrown",
                                                  d.payload)>>]
            /\ calls' = IF d.outcome = "pending"
                        THEN LET i == CHOOSE k \in FreeSlots : \A j \in FreeSlots : k <= j
                             IN  [calls EXCEPT ![i] =
                                    [state |-> IF d.early THEN "returned"
                                               ELSE "waiting",
                                     tool |-> d.handler,
                                     args |-> args, params |-> d.parsed,
                                     admitted |-> d.admitted,
                                     log |-> entry \o d.log,
                                     result |-> d.result]]
                        ELSE calls
            /\ UNCHANGED <<now, registry, rres>>

\* The file reader call of a waiting tool call ends; the handler returns
\* its envelope, the breaker books the thunk, handleRequest returns.
Complete(i) ==
    /\ calls[i].state = "waiting"
    /\ \E o \in ReaderOutcomes(calls[i].tool, calls[i].params) :
         \E h \in {HandlerFinish(calls[i].tool, calls[i].params, o)} :
          LET c == calls[i]
          IN  /\ breaker' = Book(breaker, TRUE, now)
              /\ streak' = NextStreak("ok")
              /\ resp' = [step |-> "complete", op |-> "call_tool", name |-> c.tool,
                          args |-> c.args, outcome |-> "returned",
                          payload |-> h.result, handler |-> c.tool, thunk |-> TRUE,
                          ran |-> "ok", lookup |-> TRUE, admitted |-> c.admitted,
                          before |-> breaker, read |-> o,
                          log |-> c.log \o h.log
                                  \o <<ExitLog("call_tool", FALSE, h.result)>>]
              /\ calls' = [calls EXCEPT ![i] = FreeSlot]
    /\ UNCHANGED <<now, registry, rres>>

\* The promise of a thunk that met no reader call is awaited: execute
\* books the success a turn after it let the call in, and handleRequest
\* returns.  Other requests may reach the breaker in between.
Return(i) ==
    /\ calls[i].state = "returned"
    /\ LET c == calls[i]
       IN  /\ breaker' = Book(breaker, TRUE, now)
           /\ streak' = NextStreak("ok")
           /\ resp' = [step |-> "return", op |-> "call_tool", name |-> c.tool,
                       args |-> c.args, outcome |-> "returned",
                       payload |-> c.result, handler |-> c.tool, thunk |-> TRUE,
                       ran |-> "ok", lookup |-> FALSE, admitted |-> c.admitted,
                       before |-> breaker, read |-> NoOutcome,
                       log |-> c.log \o <<ExitLog("call_tool", FALSE, c.result)>>]
           /\ calls' = [calls EXCEPT ![i] = FreeSlot]
    /\ UNCHANGED <<now, registry, rres>>

\* Time passes.
Tick ==
    /\ now < MaxTime
    /\ now' = now + 1
    /\ resp' = NoResponse
    /\ UNCHANGED <<breaker, calls, streak, registry, rres>>

NoRegistry == [literals |-> {}, templates |-> <<>>]

NoRead ==
    [uri |-> <<>>, outcome |-> "none", kind |-> "none", key |-> <<>>,
     index |-> 0, tested |-> 0, invoked |-> <<>>, passed |-> <<>>,
     payload |-> Envelope("none", <<>>)]

-----------------------------------------------------------------------------
(* Spec: tool calls that overlap, the breaker and the clock.  The names    *)
(* are one of each kind the handler tells apart.                           *)

SpecNames ==
    {NoName, "unknown_tool", "get_component", "constructor", "valueOf"}

SpecArgs == {NoArgs, ValidArgs}

Init ==
    /\ breaker = BreakerInit
    /\ now = 0
    /\ calls = [i \in 1..MaxInFlight |-> FreeSlot]
    /\ resp = NoResponse
    /\ streak = 0
    /\ registry = NoRegistry
    /\ rres = NoRead

Next ==
    \/ \E name \in SpecNames, args \in SpecArgs : CallTool(name, args)
    \/ \E i \in DOMAIN calls : Complete(i)
    \/ \E i \in DOMAIN calls : Return(i)
    \/ Tick

Spec == Init /\ [][Next]_vars

-----------------------------------------------------------------------------
(* SpecTools: every tool name with every params object, one call at a      *)
(* time, the clock standing still.                                         *)

InitTools ==
    /\ breaker = BreakerInit
    /\ now = 0
    /\ calls = [i \in {1} |-> FreeSlot]
    /\ resp = NoResponse
    /\ streak = 0
    /\ registry = NoRegistry
    /\ rres = NoRead

NextTools ==
    \/ \E name \in NameInputs, args \in ArgInputs : CallTool(name, args)
    \/ \E i \in DOMAIN calls : Complete(i)
    \/ \E i \in DOMAIN calls : Return(i)

SpecTools == InitTools /\ [][NextTools]_vars

-----------------------------------------------------------------------------
(* read_resource.  A URI and a template are sequences of characters.  The  *)
(* registries come from resources.js, which is not among the sources:      *)
(* resourceHandlers maps a literal URI to a handler and                    *)
(* resourceTemplateHandlers maps a template to one, in the order written.  *)

Scheme == <<"r", "e", "s", "o", "u", "r", "c", "e", ":">>
ComponentPath == <<"c", "o", "m", "p", "o", "n", "e", "n", "t", "/">>
AnimatedList == <<"A", "n", "i", "m", "a", "t", "e", "d", "L", "i", "s", "t">>
DemoSuffix == <<"/", "d", "e", "m", "o">>
NamePlaceholder == <<"{", "n", "a", "m", "e", "}">>
KindPlaceholder == <<"{", "k", "i", "n", "d", "}">>

\* "resource:get_components", the static resource the server declares.
StaticUri == Scheme \o <<"g", "e", "t", "_", "c", "o", "m", "p", "o", "n", "e", "n", "t", "s">>

\* "resource:component/list", a literal that a template matches as well.
ListUri == Scheme \o ComponentPath \o <<"l", "i", "s", "t">>

\* "resource:component/{name}"
ComponentTemplate == Scheme \o ComponentPath \o NamePlaceholder

\* "resource:component/{name}/demo"
DemoTemplate == Scheme \o ComponentPath \o NamePlaceholder \o DemoSuffix

\* "resource:{kind}/{name}"
KindTemplate == Scheme \o KindPlaceholder \o <<"/">> \o NamePlaceholder

\* The characters of an inherited property name.
Spelled(key) ==
    CASE key = "constructor" -> <<"c", "o", "n", "s", "t", "r", "u", "c", "t", "o", "r">>
      [] key = "valueOf" -> <<"v", "a", "l", "u", "e", "O", "f">>

\* The registries the model starts from.
Registries ==
    [literals : {{StaticUri}, {StaticUri, ListUri}},
     templates : {<<ComponentTemplate>>,
                  <<ComponentTemplate, DemoTemplate>>,
                  <<DemoTemplate, ComponentTemplate>>,
                  <<KindTemplate, ComponentTemplate>>,
                  <<DemoTemplate, ComponentTemplate, KindTemplate>>}]

\* The URIs a client asks for.
UriInputs ==
    {StaticUri,
     ListUri,
     Scheme \o ComponentPath \o AnimatedList,
     Scheme \o ComponentPath,
     <<"x">> \o Scheme \o ComponentPath \o AnimatedList,
     Scheme \o ComponentPath \o AnimatedList \o DemoSuffix,
     Scheme \o ComponentPath \o AnimatedList \o DemoSuffix \o <<"s">>,
     <<"x">> \o StaticUri,
     Scheme \o <<"x">>,
     Spelled("constructor"),
     Spelled("valueOf")}

Wild == "(.+)"

\* The least index of s at or after i that holds c, or 0.
IndexFrom(s, c, i) ==
    LET at == {j \in i..Len(s) : s[j] = c}
    IN  IF at = {} THEN 0 ELSE CHOOSE j \in at : \A k \in at : j <= k

\* pattern.replace(/\{[^}]+\}/g, '(.+)'): every "{", one or more characters
\* that are not "}", "}" becomes the group; the rest stays as it is.
RECURSIVE ReplacePlaceholders(_)
ReplacePlaceholders(pattern) ==
    IF pattern = <<>> THEN <<>>
    ELSE LET close == IndexFrom(pattern, "}", 2)
         IN  IF Head(pattern) = "{" /\ close >= 3
             THEN <<Wild>> \o ReplacePlaceholders(SubSeq(pattern, close + 1, Len(pattern)))
             ELSE <<Head(pattern)>> \o ReplacePlaceholders(Tail(pattern))

\* The expression matches a prefix of u.  The characters of the templates
\* stand for themselves in a RegExp; the group takes one character or more.
RECURSIVE MatchesPrefix(_, _)
MatchesPrefix(re, u) ==
    IF re = <<>> THEN TRUE
    ELSE IF Head(re) = Wild
    THEN \E k \in 1..Len(u) : MatchesPrefix(Tail(re), SubSeq(u, k + 1, Len(u)))
    ELSE /\ u # <<>>
         /\ Head(u) = Head(re)
         /\ MatchesPrefix(Tail(re), Tail(u))

\* The expression matches from the first character of u to the last.
RECURSIVE MatchesWhole(_, _)
MatchesWhole(re, u) ==
    IF re = <<>> THEN u = <<>>
    ELSE IF Head(re) = Wild
    THEN \E k \in 1..Len(u) : MatchesWhole(Tail(re), SubSeq(u, k + 1, Len(u)))
    ELSE /\ u # <<>>
         /\ Head(u) = Head(re)
         /\ MatchesWhole(Tail(re), Tail(u))

\* new RegExp(source).test(uri): the expression has no ^ and no $, so it is
\* looked for from every position of the URI.
RegexTest(re, uri) ==
    \E start \in 1..(Len(uri) + 1) : MatchesPrefix(re, SubSeq(uri, start, Len(uri)))

\* A test that asks for the whole URI.
RegexTestAnchored(re, uri) == MatchesWhole(re, uri)

\* regex.test(uri) for the template's expression.
TemplateTest(pattern, uri) == RegexTest(ReplacePlaceholders(pattern), uri)

\* resourceHandlers[uri]
ResourceLookup(literals, uri) ==
    IF uri \in literals THEN [found |-> TRUE, own |-> TRUE, fn |-> Absent]
    ELSE IF \E k \in InheritedKeys : Spelled(k) = uri
    THEN [found |-> TRUE, own |-> FALSE,
          fn |-> CHOOSE k \in InheritedKeys : Spelled(k) = uri]
    ELSE [found |-> FALSE, own |-> FALSE, fn |-> Absent]

\* handler(uri): what the template's handler is called with.
TemplateArguments(uri) == <<uri>>

\* `${uri}`: the characters of a URI as one string.
RECURSIVE UriText(_)
UriText(uri) == IF uri = <<>> THEN "" ELSE Head(uri) \o UriText(Tail(uri))

\* new Error(`Resource not found: ${uri}`)
ResourceNotFound(uri) == Thrown("Error", "Resource not found: " \o UriText(uri))

HandlerOutcomes == {"returns", "throws"}

\* What a resource handler gives back or throws.
HandlerResult(out) ==
    IF out = "returns" THEN Envelope("data", <<"contents">>)
    ELSE Thrown("Error", "handler failed")

\* The callback of the ReadResourceRequestSchema handler for one URI.
DispatchReadResource(reg, uri, out) ==
    LET found == ResourceLookup(reg.literals, uri)
        hits == {i \in DOMAIN reg.templates : TemplateTest(reg.templates[i], uri)}
        first == CHOOSE i \in hits : \A j \in hits : i <= j
        base == [NoRead EXCEPT !.uri = uri]
    IN  IF found.found /\ found.own
        THEN [base EXCEPT !.kind = "literal", !.key = uri,
                          !.invoked = <<uri>>, !.passed = <<>>,
                          !.outcome = IF out = "returns" THEN "returned" ELSE "thrown",
                          !.payload = HandlerResult(out)]
        ELSE IF found.found
        THEN LET r == InheritedCall(found.fn)
             IN  [base EXCEPT !.kind = "inherited", !.key = uri,
                              !.invoked = <<uri>>, !.passed = <<>>,
                              !.outcome = IF r.ok THEN "returned" ELSE "thrown",
                              !.payload = r.payload]
        ELSE IF hits # {}
        THEN [base EXCEPT !.kind = "template", !.key = reg.templates[first],
                          !.index = first, !.tested = first,
                          !.invoked = <<reg.templates[first]>>,
                          !.passed = TemplateArguments(uri),
                          !.outcome = IF out = "returns" THEN "returned" ELSE "thrown",
                          !.payload = HandlerResult(out)]
        ELSE [base EXCEPT !.kind = "notfound", !.tested = Len(reg.templates),
                          !.outcome = "thrown",
                          !.payload = ResourceNotFound(uri)]

\* A handleRequest that sends every callback through the breaker.
HandledThroughBreaker(operation, params, name, ok, payload, handler) ==
    LET open == breaker.status # "Closed"
        sent == IF open THEN CircuitOpenError ELSE payload
    IN  [step |-> "arrive", op |-> operation, name |-> name, args |-> NoArgs,
         outcome |-> IF ok /\ ~open THEN "returned" ELSE "thrown",
         payload |-> sent, handler |-> handler,
         thunk |-> ~open, ran |-> "none", lookup |-> FALSE,
         admitted |-> breaker.status, before |-> breaker, read |-> NoOutcome,
         log |-> <<EntryLog(operation, params), ExitLog(operation, ~ok \/ open, sent)>>]

\* handleRequest around a callback that took no part in the breaker: the
\* entry line, the callback, the completion line and the result or the
\* error line and the error thrown again.
Handled(operation, params, name, ok, payload, handler) ==
    [step |-> "arrive", op |-> operation, name |-> name, args |-> NoArgs,
     outcome |-> IF ok THEN "returned" ELSE "thrown",
     payload |-> payload, handler |-> handler,
     thunk |-> FALSE, ran |-> "none", lookup |-> FALSE, admitted |-> "",
     before |-> breaker, read |-> NoOutcome,
     log |-> <<EntryLog(operation, params), ExitLog(operation, ~ok, payload)>>]

\* A resources/read request is served through handleRequest.
ReadResource(uri, out) ==
    /\ LET d == DispatchReadResource(registry, uri, out)
       IN  /\ rres' = d
           /\ resp' = Handled("read_resource", [uri |-> uri], NoName,
                              d.outcome = "returned", d.payload, Absent)
    /\ UNCHANGED <<breaker, now, calls, streak, registry>>

InitResource ==
    /\ breaker = BreakerInit
    /\ now = 0
    /\ calls = [i \in {1} |-> FreeSlot]
    /\ resp = NoResponse
    /\ streak = 0
    /\ registry \in Registries
    /\ rres = NoRead

NextResource == \E uri \in UriInputs, out \in HandlerOutcomes : ReadResource(uri, out)

SpecResource == InitResource /\ [][NextResource]_vars

-----------------------------------------------------------------------------
(* The other request kinds: the listings, get_prompt, and read_resource    *)
(* as handleRequest wraps it.  prompts.js is not among the sources; the    *)
(* prompt names are the ones the server declares.                          *)

\* registeredTools, in the order the array literal is written.
RegisteredToolList ==
    <<"get_component", "get_component_demo", "list_components",
      "get_component_metadata", "search_components">>

\* resources: the descriptors of the static resources.
ResourceList == <<"resource:get_components">>

\* Object.values(prompts), in the order the prompts are declared.
RegisteredPromptList ==
    <<"component_usage", "component_search", "component_comparison",
      "component_recommendation", "component_tutorial">>

RegisteredPrompts == {RegisteredPromptList[i] : i \in DOMAIN RegisteredPromptList}

\* promptHandlers[name]
PromptLookup(name) == PropertyLookup(RegisteredPrompts, name)

\* { tools: [...] }, { resources }, { prompts: [...] }
Listing(kind, items) == [shape |-> "listing", kind |-> kind, text |-> items]

ListOperations ==
    {"list_tools", "list_resources", "list_resource_templates", "list_prompts"}

\* A listing that leaves out the tools while the breaker is not Closed.
DispatchListByBreaker(operation) ==
    CASE operation = "list_tools" ->
            [ok |-> TRUE,
             payload |-> Listing("tools", IF breaker.status = "Closed"
                                          THEN RegisteredToolList ELSE <<>>)]
      [] operation = "list_resources" ->
            [ok |-> TRUE, payload |-> Listing("resources", ResourceList)]
      [] operation = "list_prompts" ->
            [ok |-> TRUE, payload |-> Listing("prompts", RegisteredPromptList)]
      [] operation = "list_resource_templates" ->
            [ok |-> FALSE,
             payload |-> Thrown("ReferenceError", "resourceTemplates is not defined")]

\* The callback of each listing handler.  resourceTemplates is not among
\* the names index.js imports, so evaluating it throws a ReferenceError.
DispatchList(operation) ==
    CASE operation = "list_tools" ->
            [ok |-> TRUE, payload |-> Listing("tools", RegisteredToolList)]
      [] operation = "list_resources" ->
            [ok |-> TRUE, payload |-> Listing("resources", ResourceList)]
      [] operation = "list_prompts" ->
            [ok |-> TRUE, payload |-> Listing("prompts", RegisteredPromptList)]
      [] operation = "list_resource_templates" ->
            [ok |-> FALSE,
             payload |-> Thrown("ReferenceError", "resourceTemplates is not defined")]

\* `${name}` for a name the request may leave out.
NameText(name) == IF name = NoName THEN "undefined" ELSE name

\* What a prompt handler gives back or throws.
PromptResult(out) ==
    IF out = "returns" THEN [shape |-> "prompt", kind |-> "data", text |-> <<"messages">>]
    ELSE Thrown("Error", "prompt handler failed")

\* The callback of the GetPromptRequestSchema handler.
DispatchGetPrompt(name, out) ==
    LET found == PromptLookup(name)
    IN  IF ~found.found
        THEN [ok |-> FALSE, handler |-> Absent,
              payload |-> Thrown("Error", "Prompt not found: " \o NameText(name))]
        ELSE IF ~found.own
        THEN [ok |-> InheritedCall(found.fn).ok, handler |-> found.fn,
              payload |-> InheritedCall(found.fn).payload]
        ELSE [ok |-> out = "returns", handler |-> found.fn,
              payload |-> PromptResult(out)]

\* A listing request is served.
List(operation) ==
    /\ LET d == DispatchList(operation)
       IN  resp' = Handled(operation, Absent, NoName, d.ok, d.payload, Absent)
    /\ UNCHANGED <<breaker, now, calls, streak, registry, rres>>

PromptInputs == {NoName, "unknown_prompt", "component_usage", "constructor", "valueOf"}

\* A prompts/get request is served.
GetPrompt(name, out) ==
    /\ LET d == DispatchGetPrompt(name, out)
       IN  resp' = Handled("get_prompt", [name |-> name, arguments |-> Absent],
                           name, d.ok, d.payload, d.handler)
    /\ UNCHANGED <<breaker, now, calls, streak, registry, rres>>

\* The registry of the server as the specification describes it: the
\* static resource and the per-component template.
DeclaredRegistry == [literals |-> {StaticUri}, templates |-> <<ComponentTemplate>>]

RequestNames == {NoName, "unknown_tool", "get_component", "constructor", "valueOf"}

RequestUris == {StaticUri, Scheme \o <<"x">>}

InitRequests ==
    /\ breaker = BreakerInit
    /\ now = 0
    /\ calls = [i \in {1} |-> FreeSlot]
    /\ resp = NoResponse
    /\ streak = 0
    /\ registry = DeclaredRegistry
    /\ rres = NoRead

NextRequests ==
    \/ \E name \in RequestNames, args \in SpecArgs : CallTool(name, args)
    \/ \E i \in DOMAIN calls : Complete(i)
    \/ \E i \in DOMAIN calls : Return(i)
    \/ Tick
    \/ \E operation \in ListOperations : List(operation)
    \/ \E name \in PromptInputs, out \in HandlerOutcomes : GetPrompt(name, out)
    \/ \E uri \in RequestUris, out \in HandlerOutcomes : ReadResource(uri, out)

SpecRequests == InitRequests /\ [][NextRequests]_vars

-----------------------------------------------------------------------------
(* Properties of the circuit breaker behind call_tool, under Spec.         *)

\* The last step was a call_tool request whose name led to a handler, so
\* that the request came to execute().
ReachedBreaker ==
    /\ resp.step = "arrive"
    /\ resp.name # NoName
    /\ ToolLookup(resp.name).found

Elapsed(b) == now - b.openedAt

\* C1: from Closed, the breaker opens at the failureThreshold-th failed
\* thunk in a row and not before; a call that comes while it is Open and
\* resetTimeout has not elapsed is rejected with CircuitOpenError, its
\* thunk and handler not invoked, the breaker left as it was.
BreakerThreshold ==
    /\ breaker.status = "Closed" =>
          /\ breaker.consecutiveFailures = streak
          /\ streak < failureThreshold
    /\ (resp.ran = "fail" /\ resp.before.status = "Closed") =>
          (breaker.status = "Open" <=> streak = failureThreshold)
    /\ (ReachedBreaker /\ resp.before.status = "Open"
        /\ Elapsed(resp.before) < resetTimeout) =>
          /\ resp.outcome = "thrown"
          /\ resp.payload = CircuitOpenError
          /\ ~resp.thunk
          /\ resp.handler = Absent
          /\ breaker = resp.before

\* The third failure in a row opened the breaker and the next call, with
\* no time passed, was rejected.
BreakerThresholdWitness ==
    /\ ReachedBreaker
    /\ resp.payload = CircuitOpenError
    /\ ~resp.thunk
    /\ breaker.status = "Open"
    /\ streak = failureThreshold
    /\ Elapsed(breaker) < resetTimeout

BreakerRecoveryInTurn ==
    /\ (ReachedBreaker /\ resp.before.status = "Open"
        /\ Elapsed(resp.before) >= resetTimeout) =>
          /\ resp.thunk
          /\ resp.admitted = "HalfOpen"
    /\ (resp.admitted = "HalfOpen" /\ resp.ran = "pending") =>
          breaker.status = "HalfOpen"
    /\ (resp.admitted = "HalfOpen" /\ resp.ran = "ok") =>
          breaker = OnSuccess(resp.before)
    /\ (resp.admitted = "HalfOpen" /\ resp.ran = "ok"
        /\ resp.before.status = "HalfOpen") =>
          /\ breaker.status = "Closed"
          /\ breaker.consecutiveFailures = 0
    /\ (resp.admitted = "HalfOpen" /\ resp.ran = "fail") =>
          /\ breaker.status = "Open"
          /\ breaker.openedAt = now

BreakerRecoveryWitness ==
    /\ resp.admitted = "HalfOpen"
    /\ resp.ran = "fail"
    /\ resp.before.status = "Open"
    /\ breaker.status = "Open"
    /\ breaker.openedAt = now
    /\ breaker.openedAt >= resp.before.openedAt + resetTimeout

\* A trial that waited for the file reader succeeded and closed the breaker.
BreakerRecoverySuccessReached ==
    /\ resp.step = "complete"
    /\ resp.admitted = "HalfOpen"
    /\ resp.before.status = "HalfOpen"
    /\ breaker.status = "Closed"
    /\ breaker.consecutiveFailures = 0

\* The calls the breaker let in and has not booked yet.
InFlight == Waiting \cup Returned

Trials == {i \in InFlight : calls[i].admitted = "HalfOpen"}

\* The calls in flight that the last request did not start.
OtherTrials ==
    Cardinality(Trials)
    - (IF resp.step = "arrive" /\ resp.outcome = "pending" /\ resp.admitted = "HalfOpen"
       THEN 1 ELSE 0)

\* C3: of the calls let through as the HalfOpen trial at most one is in
\* flight, and every other call_tool request that reaches the breaker
\* before that trial has ended is rejected, its thunk not invoked.
SingleTrial ==
    /\ Cardinality(Trials) <= 1
    /\ (ReachedBreaker /\ OtherTrials > 0) =>
          /\ resp.outcome = "thrown"
          /\ resp.payload = CircuitOpenError
          /\ ~resp.thunk
          /\ resp.handler = Absent

\* What the breaker of section 4.1 gives: a request that finds the breaker
\* HalfOpen is rejected and its thunk is not invoked, and the breaker is
\* HalfOpen only while a call let through as the trial is in flight.  The
\* breaker leaves HalfOpen at the next completion it books, whichever call
\* that is.
HalfOpenRejects ==
    /\ breaker.status = "HalfOpen" => Trials # {}
    /\ (ReachedBreaker /\ resp.before.status = "HalfOpen") =>
          /\ resp.outcome = "thrown"
          /\ resp.payload = CircuitOpenError
          /\ ~resp.thunk
          /\ resp.handler = Absent
          /\ breaker = resp.before

\* A request came while the trial was waiting for the file reader, and was
\* rejected.
SingleTrialWitness ==
    /\ ReachedBreaker
    /\ resp.before.status = "HalfOpen"
    /\ resp.payload = CircuitOpenError
    /\ Cardinality(Trials) = 1
    /\ breaker.status = "HalfOpen"

\* A call let through while the breaker was Closed ended while the trial
\* was in flight and closed the breaker.
LateCompletionClosed ==
    /\ resp.step \in {"complete", "return"}
    /\ resp.admitted = "Closed"
    /\ resp.before.status = "HalfOpen"
    /\ breaker.status = "Closed"
    /\ Trials # {}

\* A request was let through, its thunk invoked, while the trial was still
\* in flight.
SecondCallDuringTrial ==
    /\ ReachedBreaker
    /\ OtherTrials > 0
    /\ resp.thunk
    /\ resp.before.status = "Closed"

\* Two calls let through as trials were in flight together.
TwoTrialsInFlight == Cardinality(Trials) = 2

\* C4: a thunk that succeeds while the breaker is Closed sets
\* consecutiveFailures to 0; the counter of a Closed breaker is the number
\* of thunks that failed since the last one that succeeded; the breaker
\* goes from Closed to Open only by a failure that is the
\* failureThreshold-th in a row.
ConsecutiveFailures ==
    /\ (resp.ran = "ok" /\ resp.before.status = "Closed") =>
          /\ breaker.status = "Closed"
          /\ breaker.consecutiveFailures = 0
    /\ breaker.status = "Closed" => breaker.consecutiveFailures = streak
    /\ (resp.step # "none" /\ resp.before.status = "Closed"
        /\ breaker.status = "Open") =>
          /\ resp.ran = "fail"
          /\ streak = failureThreshold

\* Two failures had been counted, a call that had waited for the file
\* reader succeeded, and the counter is 0 again.
ConsecutiveFailuresWitness ==
    /\ resp.step = "complete"
    /\ resp.ran = "ok"
    /\ resp.before.status = "Closed"
    /\ resp.before.consecutiveFailures = failureThreshold - 1
    /\ breaker.consecutiveFailures = 0
    /\ breaker.status = "Closed"

BreakerStates ==
    [status : {"Closed", "Open", "HalfOpen"},
     consecutiveFailures : 0..failureThreshold,
     openedAt : {NoTime} \cup (0..MaxTime)]

\* C5: whatever calls are in flight, a call that ended is booked once: a
\* failure adds one to the counter and no more, a request that was
\* rejected or never came to the breaker leaves the state as it was; the
\* state after every step is a defined CircuitBreakerState, and every call
\* in flight can end in it.
OneBookingPerCall ==
    /\ breaker \in BreakerStates
    /\ breaker.status # "Closed" =>
          /\ breaker.openedAt # NoTime
          /\ breaker.consecutiveFailures = failureThreshold
    /\ breaker.status = "Closed" => breaker.consecutiveFailures = streak
    /\ (resp.step # "none" /\ ~resp.thunk) => breaker = resp.before
    /\ resp.ran = "fail" =>
          breaker.consecutiveFailures <= resp.before.consecutiveFailures + 1
    /\ resp.ran = "pending" =>
          breaker.consecutiveFailures = resp.before.consecutiveFailures
    /\ \A i \in Waiting : ENABLED Complete(i)
    /\ \A i \in Returned : ENABLED Return(i)

\* Two calls are waiting for the file reader while a third request has
\* failed and was counted once.
OneBookingPerCallWitness ==
    /\ Cardinality(Waiting) >= 2
    /\ resp.ran = "fail"
    /\ resp.before.status = "Closed"
    /\ breaker.consecutiveFailures = resp.before.consecutiveFailures + 1
    /\ breaker.consecutiveFailures = 2

-----------------------------------------------------------------------------
(* Properties of call_tool's parameter checks, under SpecTools.            *)

\* The last step was one of a call_tool request for a registered tool: the
\* request came, or its handler's result went back.
ToolRequest ==
    /\ resp.op = "call_tool"
    /\ resp.step \in {"arrive", "return", "complete"}
    /\ resp.name \in RegisteredTools

\* C6: a call_tool request for a registered tool that lacks a required
\* field is answered by a ValidationError thrown by the dispatcher, and the
\* tool's handler function is not invoked.
MissingFieldStopsAtDispatcher ==
    (ToolRequest /\ MissingRequired(resp.name, resp.args) # {}) =>
        /\ resp.outcome = "thrown"
        /\ resp.payload.shape = "ValidationError"
        /\ resp.handler = Absent

\* What the dispatcher does with such a request: once the breaker lets it
\* in, the handler is invoked; its check of the params fails inside its
\* try block, the catch block returns the error text without a file reader
\* call, and the text goes to the caller as the result of the request.
MissingFieldReachesHandler ==
    (ToolRequest /\ MissingRequired(resp.name, resp.args) # {}) =>
        /\ resp.step # "complete"
        /\ (resp.step = "arrive" /\ resp.thunk) =>
              /\ resp.handler = resp.name
              /\ resp.outcome = "pending"
              /\ \E i \in Returned :
                    /\ calls[i].tool = resp.name
                    /\ calls[i].result.kind = "error"
        /\ (resp.step = "arrive" /\ ~resp.thunk) => resp.payload = CircuitOpenError
        /\ resp.step = "return" =>
              /\ resp.outcome = "returned"
              /\ resp.payload.shape = "envelope"
              /\ resp.payload.kind = "error"
              /\ resp.handler = resp.name
              /\ ~resp.lookup

\* get_component was called without componentName and the caller got the
\* handler's text of the failed check.
MissingFieldReached ==
    /\ ToolRequest
    /\ resp.step = "return"
    /\ resp.name = "get_component"
    /\ resp.args.componentName = Absent
    /\ resp.handler = "get_component"
    /\ resp.outcome = "returned"
    /\ resp.payload.text =
          <<"Error retrieving component: Validation failed: componentName is required">>

\* C7: a request to get_component, get_component_demo, list_components or
\* search_components whose category is given and is not one of the four
\* categories ends as a validation failure: the file reader is not asked,
\* no call is left waiting for it, and what goes back is not a result with
\* data.
BadCategoryFails ==
    /\ \A i \in Waiting : ~BadCategory(calls[i].tool, calls[i].args)
    /\ (ToolRequest /\ BadCategory(resp.name, resp.args)
        /\ resp.outcome = "returned") =>
          /\ ~resp.lookup
          /\ resp.payload.shape = "envelope"
          /\ resp.payload.kind = "error"

\* get_component was called with a componentName and the category "Bogus":
\* the error text came back and the file reader was not asked.
BadCategoryFailsWitness ==
    /\ ToolRequest
    /\ resp.step = "return"
    /\ resp.name = "get_component"
    /\ resp.args.componentName = "AnimatedList"
    /\ resp.args.category = "Bogus"
    /\ ~resp.lookup
    /\ resp.payload =
          Envelope("error", <<"Error retrieving component: Validation failed: category is invalid">>)

\* list_components was called with the category "Bogus" and the error
\* text came back.
BadCategoryRejectedReached ==
    /\ ToolRequest
    /\ resp.step = "return"
    /\ resp.name = "list_components"
    /\ resp.args.category = "Bogus"
    /\ resp.payload =
          Envelope("error", <<"Error listing components: Validation failed: category is invalid">>)

-----------------------------------------------------------------------------
(* Properties of read_resource, under SpecResource.                        *)

\* The last request was answered by the template scan or by its end.
Scanned == rres.kind \in {"template", "notfound"}

\* Some registered template, taken whole, equals the URI with every
\* placeholder replaced by one character or more.
WholeMatches ==
    {i \in DOMAIN registry.templates :
        RegexTestAnchored(ReplacePlaceholders(registry.templates[i]), rres.uri)}

\* C8: a URI is served by a template's handler only if the whole URI equals
\* the template with every placeholder replaced by a captured text; a URI
\* that only holds such a text, with characters before or after it, is
\* answered "Resource not found".
TemplateMatchIsAnchored ==
    /\ rres.kind = "template" =>
          RegexTestAnchored(ReplacePlaceholders(rres.key), rres.uri)
    /\ (Scanned /\ WholeMatches = {}) =>
          /\ rres.kind = "notfound"
          /\ rres.outcome = "thrown"
          /\ rres.invoked = <<>>

\* "xresource:component/AnimatedList" was served by the handler of
\* "resource:component/{name}".
UnanchoredMatchServed ==
    /\ rres.uri = <<"x">> \o Scheme \o ComponentPath \o AnimatedList
    /\ rres.kind = "template"
    /\ rres.key = ComponentTemplate
    /\ rres.invoked = <<ComponentTemplate>>
    /\ rres.outcome = "returned"

\* The captured texts, in placeholder order, of every way the expression
\* matches u from its first character to its last.
RECURSIVE CaptureSets(_, _)
CaptureSets(re, u) ==
    IF re = <<>> THEN (IF u = <<>> THEN {<<>>} ELSE {})
    ELSE IF Head(re) = Wild
    THEN UNION {{<<SubSeq(u, 1, k)>> \o c :
                    c \in CaptureSets(Tail(re), SubSeq(u, k + 1, Len(u)))} :
                k \in 1..Len(u)}
    ELSE IF u # <<>> /\ Head(u) = Head(re)
    THEN CaptureSets(Tail(re), Tail(u))
    ELSE {}

\* What the code does: when a URI is served by a template, the template's
\* handler, and no other, is invoked with one argument, the URI as it came;
\* no placeholder value is taken out of it.
TemplateHandlerGetsUri ==
    rres.kind = "template" =>
        /\ rres.invoked = <<rres.key>>
        /\ rres.passed = <<rres.uri>>

\* "resource:component/AnimatedList" was served by the handler of
\* "resource:component/{name}", called with the URI.
TemplateHandlerGetsUriWitness ==
    /\ rres.kind = "template"
    /\ rres.uri = Scheme \o ComponentPath \o AnimatedList
    /\ rres.key = ComponentTemplate
    /\ rres.passed = <<Scheme \o ComponentPath \o AnimatedList>>

\* C9: the handler of the template that the whole URI matches is invoked
\* with the texts the placeholders stand for in the URI, in placeholder
\* order.
TemplateHandlerGetsCaptures ==
    (rres.kind = "template"
     /\ RegexTestAnchored(ReplacePlaceholders(rres.key), rres.uri)) =>
        rres.passed \in CaptureSets(ReplacePlaceholders(rres.key), rres.uri)

\* The templates the dispatcher's test accepts for the URI of the last
\* request.
Hits == {i \in DOMAIN registry.templates : TemplateTest(registry.templates[i], rres.uri)}

\* C10: a URI that is a registered literal is served by the literal's
\* handler and no template is tested; any other URI is served by the first
\* template, in the order of registration, that the test accepts, and by no
\* later one; when no template accepts it the request fails with "Resource
\* not found".
ResolutionOrder ==
    rres.outcome # "none" =>
        IF rres.uri \in registry.literals
        THEN /\ rres.kind = "literal"
             /\ rres.invoked = <<rres.uri>>
             /\ rres.tested = 0
        ELSE IF Hits # {}
        THEN /\ rres.kind = "template"
             /\ \A j \in Hits : rres.index <= j
             /\ rres.index \in Hits
             /\ rres.invoked = <<registry.templates[rres.index]>>
        ELSE /\ rres.kind = "notfound"
             /\ rres.outcome = "thrown"
             /\ rres.payload = ResourceNotFound(rres.uri)
             /\ rres.invoked = <<>>

\* "constructor", which is no literal and which no template accepts, was
\* answered with what Object() returns.
InheritedResourceServed ==
    /\ rres.uri = Spelled("constructor")
    /\ rres.uri \notin registry.literals
    /\ Hits = {}
    /\ rres.kind = "inherited"
    /\ rres.outcome = "returned"

\* The order holds for every URI that is not the name of an inherited
\* property.
ResolutionOrderOfOwnKeys ==
    rres.kind # "inherited" => ResolutionOrder

\* A literal that a template accepts too was served by the literal's
\* handler, and a URI that two templates accept by the first of them.
LiteralBeforeTemplateReached ==
    /\ rres.uri = ListUri
    /\ rres.kind = "literal"
    /\ Hits # {}

FirstTemplateReached ==
    /\ rres.kind = "template"
    /\ Cardinality(Hits) >= 2
    /\ rres.index = 2
    /\ 1 \notin Hits

-----------------------------------------------------------------------------
(* Properties of the dispatcher over every request kind, under             *)
(* SpecRequests.                                                           *)

\* The last step was the arrival of a request of this kind.
Served(operation) == resp.step = "arrive" /\ resp.op = operation

\* C11: a call_tool request whose name is a string that is not one of the
\* five registered tool names fails with "Tool not found" and invokes no
\* handler; a get_prompt request whose name is a string that is not a
\* registered prompt fails with "Prompt not found"; a read_resource request
\* whose URI is no literal and is accepted by no template fails with
\* "Resource not found".
ExactLookup ==
    /\ (Served("call_tool") /\ resp.name # NoName /\ resp.name \notin RegisteredTools) =>
          /\ resp.outcome = "thrown"
          /\ resp.payload = Thrown("Error", "Tool not found: " \o resp.name)
          /\ resp.handler = Absent
          /\ ~resp.thunk
    /\ (Served("get_prompt") /\ resp.name # NoName /\ resp.name \notin RegisteredPrompts) =>
          /\ resp.outcome = "thrown"
          /\ resp.payload = Thrown("Error", "Prompt not found: " \o resp.name)
          /\ resp.handler = Absent
    /\ (Served("read_resource") /\ rres.uri \notin registry.literals /\ Hits = {}) =>
          /\ resp.outcome = "thrown"
          /\ rres.kind = "notfound"

\* call_tool with the name "constructor" ran Object through the breaker
\* and gave its object back as the result.
InheritedToolServed ==
    /\ resp.op = "call_tool"
    /\ resp.step = "return"
    /\ resp.name = "constructor"
    /\ resp.handler = "constructor"
    /\ resp.thunk
    /\ resp.outcome = "returned"
    /\ resp.payload.shape = "object"

\* get_prompt with the name "valueOf" ended with a TypeError, not with
\* "Prompt not found".
InheritedPromptServed ==
    /\ Served("get_prompt")
    /\ resp.name = "valueOf"
    /\ resp.handler = "valueOf"
    /\ resp.outcome = "thrown"
    /\ resp.payload.shape = "TypeError"

\* The lookups are exact for every name that Object.prototype does not
\* hold.
ExactLookupOfOwnKeys ==
    resp.name \notin InheritedKeys => ExactLookup

PureListOperations == {"list_tools", "list_resources", "list_prompts"}

\* C12: a list_tools, list_resources or list_prompts request returns its
\* listing in every state, the breaker Open or not: it ends by returning,
\* no check of parameters stands before it, the breaker is not asked and
\* is left as it was.
ListsArePure ==
    \A operation \in PureListOperations :
        Served(operation) =>
            /\ resp.outcome = "returned"
            /\ resp.payload = DispatchList(operation).payload
            /\ resp.payload.shape = "listing"
            /\ ~resp.thunk
            /\ resp.admitted = ""
            /\ breaker = resp.before
            /\ resp.log = <<EntryLog(operation, Absent),
                            LogInfo(operation \o " completed successfully")>>

\* list_prompts was served while the breaker was Open and calls would be
\* rejected.
ListsArePureWitness ==
    /\ Served("list_prompts")
    /\ resp.outcome = "returned"
    /\ resp.payload = Listing("prompts", RegisteredPromptList)
    /\ breaker.status = "Open"
    /\ Elapsed(breaker) < resetTimeout

\* The requests that are not tool calls.
DirectOperations == ListOperations \cup {"get_prompt", "read_resource"}

\* C13: the breaker stands before the handler of every registered tool,
\* all of which read files: such a call runs exactly when the breaker lets
\* it.  A prompt is invoked directly, whatever the breaker's state, and a
\* listing, read_resource or get_prompt request neither asks the breaker
\* nor changes it.
BreakerOnlyForTools ==
    /\ (Served("call_tool") /\ resp.name \in RegisteredTools) =>
          /\ resp.thunk = Admit(resp.before, now).admit
          /\ ~resp.thunk => resp.payload = CircuitOpenError
          /\ resp.thunk => resp.handler = resp.name
    /\ \A operation \in DirectOperations :
          Served(operation) =>
              /\ breaker = resp.before
              /\ resp.admitted = ""
              /\ ~resp.thunk
              /\ resp.payload # CircuitOpenError
    /\ (Served("get_prompt") /\ resp.name \in RegisteredPrompts) =>
          resp.handler = resp.name

\* A registered prompt was invoked and gave its result while the breaker
\* was Open and tool calls were being rejected.
BreakerOnlyForToolsWitness ==
    /\ Served("get_prompt")
    /\ resp.name = "component_usage"
    /\ resp.handler = "component_usage"
    /\ resp.outcome = "returned"
    /\ breaker.status = "Open"
    /\ Elapsed(breaker) < resetTimeout

\* read_resource was served while the breaker was Open.
ReadWhileOpenReached ==
    /\ Served("read_resource")
    /\ rres.kind = "literal"
    /\ resp.outcome = "returned"
    /\ breaker.status = "Open"

\* A request ended, by a return or by an error.
Ended == resp.step # "none" /\ resp.outcome # "pending"

\* C14 as the code has it: a failure becomes an error text in a returned
\* envelope exactly when it arises inside one of the five tool handlers,
\* whose catch block turns it into the text; a call_tool request that
\* invoked no handler (no name, unknown name, circuit open), every failure
\* of get_prompt, of a listing and of read_resource is an error thrown to
\* the transport layer.
ErrorChannel ==
    Ended =>
        /\ resp.outcome = "thrown" => resp.payload.kind = "thrown"
        /\ resp.outcome = "returned" => resp.payload.kind # "thrown"
        /\ resp.payload.kind = "error" =>
              /\ resp.op = "call_tool"
              /\ resp.handler \in RegisteredTools
              /\ resp.outcome = "returned"
              /\ resp.payload.shape = "envelope"
        /\ (resp.op = "call_tool" /\ resp.handler \in RegisteredTools) =>
              /\ resp.outcome = "returned"
              /\ resp.payload.shape = "envelope"
        /\ (resp.op = "call_tool" /\ resp.handler = Absent) => resp.outcome = "thrown"
        /\ (resp.op = "get_prompt" /\ resp.handler = Absent) => resp.outcome = "thrown"

\* A call for a registered tool found the breaker Open and ended with
\* CircuitOpenError thrown to the transport layer.
ErrorChannelWitness ==
    /\ Served("call_tool")
    /\ resp.name = "get_component"
    /\ resp.outcome = "thrown"
    /\ resp.payload = CircuitOpenError
    /\ resp.handler = Absent

\* A failure of the file reader came back as an error text.
HandlerFailureReturned ==
    /\ resp.step = "complete"
    /\ resp.outcome = "returned"
    /\ resp.payload = ErrorEnvelope("get_component", "EACCES: permission denied")

\* C14 as the specification states it: no failure of a tool call or of a
\* prompt retrieval is thrown, each comes back as an error text in an
\* envelope; no failure of a listing or of read_resource comes back as an
\* error text.
ToolAndPromptFailuresAreText ==
    Ended =>
        /\ resp.op \in {"call_tool", "get_prompt"} => resp.outcome # "thrown"
        /\ resp.op \in ListOperations \cup {"read_resource"} => resp.payload.kind # "error"

\* The entries of the last request's log that are error lines.
ErrorLines == {i \in DOMAIN resp.log : resp.log[i].level = "error"}

\* The entries that are handleRequest's completion line.
CompletionLines ==
    {i \in DOMAIN resp.log : resp.log[i] = LogInfo(resp.op \o " completed successfully")}

\* C15 as the code has it: an error thrown into handleRequest, for every
\* request kind, is logged as an error once, as the last line of the
\* request, and the same error is thrown on; no completion line is logged
\* for it.  A failure inside a tool handler does not come to handleRequest:
\* the handler logs it once and returns the error text, handleRequest
\* returns it and logs the completion line.
FailureLogging ==
    Ended =>
        /\ resp.outcome = "thrown" =>
              /\ Cardinality(ErrorLines) = 1
              /\ resp.log[Len(resp.log)] =
                    LogError("Error in " \o resp.op, resp.payload.text[1])
              /\ CompletionLines = {}
        /\ resp.outcome = "returned" =>
              /\ CompletionLines = {Len(resp.log)}
              /\ Cardinality(ErrorLines) = (IF resp.payload.kind = "error" THEN 1 ELSE 0)
              /\ \A i \in ErrorLines : i < Len(resp.log)

\* get_prompt for a name that is not registered: one error line, the error
\* thrown on.
FailureLoggingWitness ==
    /\ Served("get_prompt")
    /\ resp.name = "unknown_prompt"
    /\ resp.outcome = "thrown"
    /\ resp.payload = Thrown("Error", "Prompt not found: unknown_prompt")
    /\ resp.log[Len(resp.log)] =
          LogError("Error in get_prompt", "Prompt not found: unknown_prompt")
    /\ Cardinality(ErrorLines) = 1

\* The request had a failure: an error was thrown or an error text returned.
Failed == resp.outcome = "thrown" \/ resp.payload.kind = "error"

\* C15 as the specification states it: every request that failed ends with
\* the error thrown on, one error line and no completion line.
EveryFailureIsRaised ==
    (Ended /\ Failed) =>
        /\ resp.outcome = "thrown"
        /\ Cardinality(ErrorLines) = 1
        /\ CompletionLines = {}

\* get_component without componentName returned normally, with the
\* handler's error line followed by the completion line.
FailureReturnedNormally ==
    /\ resp.op = "call_tool"
    /\ resp.step = "return"
    /\ resp.name = "get_component"
    /\ resp.payload.kind = "error"
    /\ resp.outcome = "returned"
    /\ Cardinality(ErrorLines) = 1
    /\ CompletionLines # {}

-----------------------------------------------------------------------------
(* Properties of the five tool handlers, under SpecTools.                  *)

\* The last step gave the caller what a registered tool's handler returned.
HandlerReturned ==
    /\ resp.op = "call_tool"
    /\ resp.handler \in RegisteredTools
    /\ Ended

\* C16: whatever the params and whatever the file reader does (a text, an
\* empty text, nothing, a list, an empty list, an error thrown), each of
\* the five handlers returns an envelope that holds a text, of data, of a
\* message or of an error; nothing it meets is thrown out of it.
EnvelopeInvariant ==
    /\ HandlerReturned =>
          /\ resp.outcome = "returned"
          /\ resp.payload.shape = "envelope"
          /\ resp.payload.kind \in {"data", "message", "error"}
          /\ Len(resp.payload.text) >= 1
          /\ resp.payload.kind = "data" => resp.payload.text # <<"">>
    /\ \A i \in Waiting : \A o \in FileOutcomes(calls[i].tool) :
          LET r == HandlerFinish(calls[i].tool, calls[i].params, o).result
          IN  r.shape = "envelope" /\ Len(r.text) >= 1
    /\ \A i \in Returned :
          calls[i].tool \in RegisteredTools =>
              /\ calls[i].result.shape = "envelope"
              /\ calls[i].result.kind = "error"
              /\ Len(calls[i].result.text) >= 1

\* The file reader threw while search_components waited for it, and the
\* handler returned the error as a text.
EnvelopeInvariantWitness ==
    /\ resp.step = "complete"
    /\ resp.name = "search_components"
    /\ resp.outcome = "returned"
    /\ resp.payload =
          Envelope("error", <<"Error searching components: EACCES: permission denied">>)

\* C17: every line a request logs carries the name of the operation and no
\* content of the request's parameters.
LogsCarryNoParameters ==
    \A i \in DOMAIN resp.log :
        /\ resp.log[i].ctx = {}
        /\ resp.args.query # Absent =>
              resp.log[i].msg #
                  "Searching components with query: \"" \o resp.args.query \o "\""

\* What the code logs for a request that returned: the entry line with the
\* params object first, the completion line last.
EntryThenCompletion ==
    (Ended /\ resp.outcome = "returned") =>
        /\ Len(resp.log) >= 2
        /\ resp.log[1].msg = "Handling " \o resp.op \o " request"
        /\ resp.log[Len(resp.log)] = LogInfo(resp.op \o " completed successfully")
        /\ CompletionLines = {Len(resp.log)}

\* The entry line of a search_components request holds the query, and the
\* handler's own line names it too.
ParametersLogged ==
    /\ Served("call_tool")
    /\ resp.name = "search_components"
    /\ resp.args.query = "card"
    /\ resp.log[1] = EntryLog("call_tool", [name |-> "search_components",
                                            arguments |-> resp.args])
    /\ resp.log[1].ctx # {}
    /\ resp.log[2].msg = "Searching components with query: \"card\""

\* The names of the components the file reader knows in the model.
ComponentNames == {"AnimatedList", "Aurora", "CardSwap"}

HeadingLines(lines) ==
    {j \in DOMAIN lines : \E c \in Categories : lines[j] = "## " \o c}

BulletLinesOf(lines, name) == {j \in DOMAIN lines : lines[j] = "- " \o name}

AllBulletLines(lines) == UNION {BulletLinesOf(lines, n) : n \in ComponentNames}

\* The heading a line stands under: the nearest one above it.
HeadingAbove(lines, j) ==
    LET above == {h \in HeadingLines(lines) : h < j}
    IN  IF above = {} THEN 0 ELSE CHOOSE h \in above : \A g \in above : g <= h

NameAt(lines, j) == CHOOSE n \in ComponentNames : lines[j] = "- " \o n

\* search_components returned after the file reader gave it a non-empty
\* sequence of results.
SearchFound ==
    /\ resp.step = "complete"
    /\ resp.name = "search_components"
    /\ resp.read.kind = "present"
    /\ Len(resp.read.items) > 0

\* C18: for a non-empty sequence of results, the text of search_components
\* lists every result once, under the heading of its own category, the
\* names under one heading ascending, and ends with the number of
\* results; when a category was asked for, no other category is headed.
SearchOutput ==
    SearchFound =>
        LET lines == resp.payload.text
            results == resp.read.items
        IN  /\ resp.payload.kind = "data"
            /\ \A k \in DOMAIN results :
                  LET at == BulletLinesOf(lines, results[k].name)
                  IN  /\ Cardinality(at) =
                           Cardinality({m \in DOMAIN results :
                                           results[m].name = results[k].name})
                      /\ \A j \in at :
                            /\ HeadingAbove(lines, j) # 0
                            /\ lines[HeadingAbove(lines, j)] =
                                  "## " \o results[k].category
            /\ Cardinality(AllBulletLines(lines)) = Len(results)
            /\ \A c \in Categories :
                  Cardinality({h \in HeadingLines(lines) : lines[h] = "## " \o c}) <= 1
            /\ \A i, j \in AllBulletLines(lines) :
                  (i < j /\ HeadingAbove(lines, i) = HeadingAbove(lines, j)) =>
                      NameRank(NameAt(lines, i)) <= NameRank(NameAt(lines, j))
            /\ lines[Len(lines)] =
                  "Found " \o NumStr(Len(results)) \o " matching component"
                  \o (IF Len(results) = 1 THEN "" ELSE "s")
            /\ resp.args.category # Absent =>
                  \A h \in HeadingLines(lines) :
                      lines[h] = "## " \o resp.args.category

\* A search for "card" among "Components" whose two results came in
\* descending order.
SearchOutputWitness ==
    /\ SearchFound
    /\ resp.args.category = "Components"
    /\ resp.read.items =
          <<Component("CardSwap", "Components"), Component("AnimatedList", "Components")>>
    /\ resp.payload.text =
          <<"Search Results for \"card\":", "", "## Components",
            "- AnimatedList", "- CardSwap", "", "", "Found 2 matching components">>

\* A search without a category whose results are of two categories.
SearchTwoCategoriesReached ==
    /\ SearchFound
    /\ resp.args.category = Absent
    /\ Len(resp.read.items) = 3
    /\ Cardinality(HeadingLines(resp.payload.text)) = 2

\* A search with one result: the count line is in the singular.
SearchOneResultReached ==
    /\ SearchFound
    /\ resp.payload.text[Len(resp.payload.text)] = "Found 1 matching component"

-----------------------------------------------------------------------------
(* Properties of the listing and of the breaker's bookkeeping of handler   *)
(* failures, under SpecRequests.                                           *)

\* C19: every list_tools request, whatever was served before it and
\* whatever the breaker's state, returns the same five tools in the order
\* of their registration.
ListToolsStable ==
    Served("list_tools") =>
        /\ resp.outcome = "returned"
        /\ resp.payload.kind = "tools"
        /\ resp.payload.text =
              <<"get_component", "get_component_demo", "list_components",
                "get_component_metadata", "search_components">>

\* list_tools was served after failureThreshold calls in a row had failed
\* and the breaker had opened.
ListToolsStableWitness ==
    /\ Served("list_tools")
    /\ Len(resp.payload.text) = 5
    /\ streak = failureThreshold
    /\ breaker.status = "Open"

\* Two list_tools requests in a row get the same answer.
ListToolsTwice ==
    [][(Served("list_tools") /\ Served("list_tools")') =>
          resp'.payload = resp.payload]_vars

\* A call of a registered tool ended with the handler's error text.
HandlerFailed ==
    /\ HandlerReturned
    /\ resp.payload.shape = "envelope"
    /\ resp.payload.kind = "error"

\* C20: a call that fails inside its tool handler is booked by the breaker
\* as a failed call: met Closed, the breaker counts one more failure and
\* opens at failureThreshold.
HandlerFailureCounts ==
    (HandlerFailed /\ resp.before.status = "Closed") =>
        breaker = OnFailure(resp.before, now)

\* What the code does: the handler's catch block returns, the thunk
\* resolves and the breaker books a success, which clears the count.
HandlerFailureBookedAsSuccess ==
    HandlerFailed =>
        /\ resp.ran = "ok"
        /\ resp.before.status = "Closed" =>
              /\ breaker.status = "Closed"
              /\ breaker.consecutiveFailures = 0
        /\ resp.before.status = "HalfOpen" => breaker.status = "Closed"
        /\ (resp.before.status = "Open" /\ resp.step = "complete") =>
              breaker = resp.before

\* After two failed calls the breaker stood one failure from opening; a
\* get_component call then failed inside its handler and the count is 0.
HandlerFailureClearsCount ==
    /\ HandlerFailed
    /\ resp.name = "get_component"
    /\ resp.before.status = "Closed"
    /\ resp.before.consecutiveFailures = failureThreshold - 1
    /\ breaker.status = "Closed"
    /\ breaker.consecutiveFailures = 0

-----------------------------------------------------------------------------
(* Properties of the three handlers that get one component, under          *)
(* SpecTools.                                                              *)

GetTools == {"get_component", "get_component_demo", "get_component_metadata"}

\* A get_* call with a componentName that passed the checks ended after
\* the file reader answered without throwing.
GetAnswered ==
    /\ resp.step = "complete"
    /\ resp.name \in GetTools
    /\ resp.read.kind \in {"absent", "present"}

\* The text a get_* handler returns for a value the reader gave: the text
\* itself, or the record written out.
Carried(tool, o) ==
    IF tool = "get_component_metadata" THEN MetadataText(o.items[1]) ELSE o.items

\* C21: when the file reader gives nothing (an empty or absent result), a
\* get_* handler reports that the component was not found, by its name;
\* when the reader gives a text or a record, whatever it is, the handler's
\* data envelope carries it.
AbsentOrCarried ==
    GetAnswered =>
        /\ resp.read.kind = "absent" =>
              resp.payload =
                  ErrorEnvelope(resp.name,
                                NotFoundMessage(resp.name, resp.args.componentName))
        /\ resp.read.kind = "present" =>
              resp.payload = Envelope("data", Carried(resp.name, resp.read))

\* The reader gave the empty text and get_component reported the
\* component as not found.
EmptyTextNotFound ==
    /\ GetAnswered
    /\ resp.name = "get_component"
    /\ resp.read = [kind |-> "absent", items |-> <<"">>]
    /\ resp.payload =
          Envelope("error",
                   <<"Error retrieving component: Component 'AnimatedList' not found">>)

\* The reader gave a text and get_component carried it.
TextCarriedReached ==
    /\ GetAnswered
    /\ resp.name = "get_component"
    /\ resp.read.kind = "present"
    /\ resp.payload = Envelope("data", <<"export default function AnimatedList() {}">>)

\* The reader gave nothing and the handler named the component it missed.
AbsentReportedReached ==
    /\ GetAnswered
    /\ resp.name = "get_component_demo"
    /\ resp.read.kind = "absent"
    /\ resp.payload =
          Envelope("error",
                   <<"Error retrieving component demo: Demo for component 'AnimatedList' not found">>)

\* The reader gave a record and the handler wrote it out.
RecordCarriedReached ==
    /\ GetAnswered
    /\ resp.name = "get_component_metadata"
    /\ resp.read.kind = "present"
    /\ resp.payload.kind = "data"
    /\ Len(resp.payload.text) > 4

-----------------------------------------------------------------------------
(* Properties of the name checks of call_tool and of                       *)
(* list_resource_templates, under SpecRequests.                            *)

\* The error the callback throws for a name it does not take.
NameError(name) ==
    IF name = NoName THEN Thrown("Error", "Tool name is required")
    ELSE Thrown("Error", "Tool not found: " \o name)

\* A call_tool request was answered at once, for a name out of `names`.
CalledWith(names) == Served("call_tool") /\ resp.name \in names

NameRejected ==
    /\ resp.outcome = "thrown"
    /\ resp.payload = NameError(resp.name)
    /\ ~resp.thunk
    /\ breaker = resp.before

\* C22: a call_tool request whose name is missing, is not a string or is
\* not a registered tool is thrown out with the name error before the
\* breaker is asked: the breaker stays as it was, and the error is the
\* name error also while the breaker is Open.
NameCheckedBeforeBreaker ==
    CalledWith(RequestNames \ RegisteredTools) => NameRejected

\* What the code does for the names toolHandlers[name] does not find.
UnknownNameBeforeBreaker ==
    CalledWith(RequestNames \ (RegisteredTools \cup InheritedKeys)) => NameRejected

\* "valueOf" is no registered tool, yet the request met the Open breaker
\* and was refused by it.
InheritedNameMeetsBreaker ==
    /\ CalledWith({"valueOf"})
    /\ resp.before.status = "Open"
    /\ resp.payload = CircuitOpenError

\* "valueOf" was called through the breaker and its failure opened it.
InheritedNameOpensBreaker ==
    /\ CalledWith({"valueOf"})
    /\ resp.before.status = "Closed"
    /\ resp.thunk
    /\ breaker.status = "Open"

\* An unknown name was thrown out with the name error while the breaker
\* was Open.
UnknownNameWhileOpenReached ==
    /\ CalledWith({"unknown_tool"})
    /\ NameRejected
    /\ breaker.status = "Open"
    /\ Elapsed(breaker) < resetTimeout

\* A missing name was thrown out while the breaker was Open.
MissingNameWhileOpenReached ==
    /\ CalledWith({NoName})
    /\ NameRejected
    /\ resp.payload.text = <<"Tool name is required">>
    /\ breaker.status = "Open"

\* C23: a list_resource_templates request is served as the other listing
\* requests are: in every state it returns the listing of the resource
\* templates and throws nothing.
TemplatesListed ==
    Served("list_resource_templates") =>
        /\ resp.outcome = "returned"
        /\ resp.payload.shape = "listing"
        /\ resp.log[Len(resp.log)] =
              LogInfo("list_resource_templates completed successfully")

\* What the code does: the callback names a binding the module never
\* imports, so every such request ends with the ReferenceError, logged and
\* thrown again; the breaker is not asked.
TemplatesListingThrows ==
    Served("list_resource_templates") =>
        /\ resp.outcome = "thrown"
        /\ resp.payload = Thrown("ReferenceError", "resourceTemplates is not defined")
        /\ resp.log = <<EntryLog("list_resource_templates", Absent),
                        LogError("Error in list_resource_templates",
                                 "resourceTemplates is not defined")>>
        /\ ~resp.thunk
        /\ breaker = resp.before

\* A list_resource_templates request ended with the ReferenceError while
\* the breaker was Closed and nothing had failed before.
TemplatesListingFailed ==
    /\ Served("list_resource_templates")
    /\ resp.outcome = "thrown"
    /\ resp.payload.shape = "ReferenceError"
    /\ breaker = BreakerInit
    /\ streak = 0

====
